---- MODULE Spec2Model ----
(***************************************************************************)
(* Model of lektor_algolia.py: the Algolia publisher of Lektor.            *)
(*                                                                         *)
(* One publish run is the generator AlgoliaPublisher.publish driven to     *)
(* exhaustion by its caller.  Every remote request (init_index, search,    *)
(* delete_objects, save_objects, close) is one step; a request may fail    *)
(* with an AlgoliaException.  The remote index is a set of objectIDs kept  *)
(* by the search service; another writer may change it while a run is in   *)
(* progress (recorded in touched).                                         *)
(*                                                                         *)
(* Python dicts are sets of <<key, value>> pairs; Python None is None.     *)
(***************************************************************************)
EXTENDS Integers, Sequences, FiniteSets, TLC

\* ---------------------------------------------------------------- bounds
NumIds == 3          \* objectIDs of the remote index are 1..NumIds
MaxNodes == 3        \* non-root nodes of the content tree; the gid of node n is n
HitsPerPage == 2     \* "hitsPerPage": 100 in the source, scaled down
BatchSize == 2       \* batch size of the client's chunked requests (1000), scaled down
MaxRuns == 2         \* publish runs in one behaviour
MaxWrites == 1       \* writes of another writer during one run
EnumIds == 5         \* objectIDs of the index when only the enumeration is run

Ids == 1..NumIds
None == "<None>"
\* credentials=None (the default) and an empty dict: both are falsy in
\* "if cli_creds:" and the code tests nothing else of them
NoCreds == {}

VARIABLES
  pc,              \* position of the publish generator
  runs,            \* number of publish runs started
  config,          \* configs/algolia.ini as a dict
  envCreds,        \* env.algolia_credentials
  cli,             \* the credentials argument of the current run
  algolia,         \* self.algolia: "none", "open" or "closed"
  tree,            \* content tree: parent of every non-root node (root is 0)
  models,          \* datamodel of every non-root node: its declared field names
  hook,            \* the indexability predicate installed as is_indexable
  local,           \* list of local records
  all_object_ids,  \* list_remote_keys: keys collected so far
  page_count,      \* list_remote_keys: nbPages of the first response
  i,               \* list_remote_keys: loop variable
  keys_to_delete,
  remote,          \* objectIDs stored in the remote index
  touched,         \* another writer changed the index during this run
  writes,
  calls,           \* requests issued to the remote service in this run, in order
  msgs,            \* progress messages yielded in this run, in order
  err              \* exception that ended the run, or "none"

vars == <<pc, runs, config, envCreds, cli, algolia, tree, models, hook, local, all_object_ids,
          page_count, i, keys_to_delete, remote, touched, writes, calls, msgs, err>>

\* ------------------------------------------------------------ Python dicts
Has(d, k) == \E p \in d : p[1] = k
Get(d, k) == (CHOOSE p \in d : p[1] = k)[2]
Put(d, k, v) == {p \in d : p[1] # k} \cup {<<k, v>>}
Truthy(v) == v # None /\ v # ""

Min(a, b) == IF a < b THEN a ELSE b

RECURSIVE SortedSeq(_)
SortedSeq(S) ==
  IF S = {} THEN <<>>
  ELSE LET m == CHOOSE x \in S : \A y \in S : x <= y
       IN <<m>> \o SortedSeq(S \ {m})

\* ------------------------------------------------------- the search service
\* index.search("", {hitsPerPage, page}): the page-th slice of the records,
\* the total number of records and the number of pages.
Search(index, page) ==
  LET s == SortedSeq(index)
      n == Len(s)
  IN [hits    |-> [k \in 1..(Min((page + 1) * HitsPerPage, n) - Min(page * HitsPerPage, n))
                     |-> [objectID |-> s[page * HitsPerPage + k]]],
      nbHits  |-> n,
      nbPages |-> (n + HitsPerPage - 1) \div HitsPerPage]

HitIds(page) == {page.hits[k].objectID : k \in DOMAIN page.hits}

\* len(res.raw_responses) of the chunked batch of n operations: one response
\* per chunk of BatchSize operations.
RawResponses(n) == (n + BatchSize - 1) \div BatchSize

\* ------------------------------------------------------------- credentials
\* mutant: the CLI values written without the test for a non-empty value
merge_credentials_Untested(config_creds, cli_creds) ==
  LET m0 == config_creds
      m1 == Put(m0, "app_id", Get(cli_creds, "username"))
      m2 == IF Truthy(Get(cli_creds, "password"))
              THEN Put(m1, "api_key", Get(cli_creds, "password")) ELSE m1
      m3 == IF Truthy(Get(cli_creds, "key"))
              THEN Put(m2, "api_key", Get(cli_creds, "key")) ELSE m2
  IN IF cli_creds # NoCreds THEN m3 ELSE m0

\* mutant: the password written after the key
merge_credentials_PasswordLast(config_creds, cli_creds) ==
  LET m0 == config_creds
      m1 == IF Truthy(Get(cli_creds, "username"))
              THEN Put(m0, "app_id", Get(cli_creds, "username")) ELSE m0
      m2 == IF Truthy(Get(cli_creds, "key"))
              THEN Put(m1, "api_key", Get(cli_creds, "key")) ELSE m1
      m3 == IF Truthy(Get(cli_creds, "password"))
              THEN Put(m2, "api_key", Get(cli_creds, "password")) ELSE m2
  IN IF cli_creds # NoCreds THEN m3 ELSE m0

merge_credentials(config_creds, cli_creds) ==
  LET m0 == config_creds
      m1 == IF Truthy(Get(cli_creds, "username"))
              THEN Put(m0, "app_id", Get(cli_creds, "username")) ELSE m0
      m2 == IF Truthy(Get(cli_creds, "password"))
              THEN Put(m1, "api_key", Get(cli_creds, "password")) ELSE m1
      m3 == IF Truthy(Get(cli_creds, "key"))
              THEN Put(m2, "api_key", Get(cli_creds, "key")) ELSE m2
  IN IF cli_creds # NoCreds THEN m3 ELSE m0

\* the check of get_index that raises PublishError
CredsMissing(merged_creds) ==
  ~Has(merged_creds, "app_id") \/ ~Has(merged_creds, "api_key")

\* ------------------------------------------------------------ local records
Trees == UNION {{p \in [1..k -> 0..MaxNodes] : \A n \in 1..k : p[n] < n} : k \in 0..MaxNodes}

Children(t, n) == SortedSeq({c \in DOMAIN t : t[c] = n})

RECURSIVE Path(_, _)
Path(t, n) == IF n = 0 THEN <<>> ELSE Append(Path(t, t[n]), n)

is_indexable(record) == TRUE

\* the predicate in force: is_indexable itself, or one substituted for it that
\* accepts the records of h.accepts (such as the disabled "indexed" flag test)
DefaultHook == [kind |-> "default", accepts |-> {}]
Indexable(h, record) ==
  IF h.kind = "default" THEN is_indexable(record) ELSE record \in h.accepts

\* field names are strings; name[0] of each name in use
FirstChar(name) ==
  CASE name = "_hidden" -> "_"
    [] name = "_path" -> "_"
    [] name = "indexed" -> "i"
    [] name = "objectID" -> "o"
    [] name = "title" -> "t"
    [] name = "body" -> "b"

is_public_field(name) == FirstChar(name) # "_" /\ name # "indexed"

public_field_names(model_fields) == SelectSeq(model_fields, is_public_field)

\* record[field_name]: the body is a Markdown value, every other field a plain
\* one.  Texts are coded by negative numbers (gids are the positive ones).
FieldValue(record, field_name) ==
  IF field_name = "body"
    THEN [kind |-> "Markdown", source |-> -1, html |-> -2]
    ELSE [kind |-> "other", str |-> -3]

stringify(record, field_name) ==
  LET val == FieldValue(record, field_name)
  IN IF val.kind = "Markdown" THEN val.source ELSE val.str

\* d[k] = v on a record dict (a function from keys to values)
SetItem(d, k, v) == [x \in DOMAIN d \cup {k} |-> IF x = k THEN v ELSE d[x]]

\* mutant: the declared fields written after objectID and _path
RecordOf_FieldsLast(t, ms, child) ==
  LET model_field_names == public_field_names(ms[child])
      names == {model_field_names[k] : k \in DOMAIN model_field_names}
  IN [x \in names \cup {"objectID", "_path"} |->
        IF x \in names THEN stringify(child, x)
        ELSE IF x = "objectID" THEN child ELSE Path(t, child)]

\* child_data of get_all_records (lines 114-123)
RecordOf(t, ms, child) ==
  LET model_field_names == public_field_names(ms[child])
      names == {model_field_names[k] : k \in DOMAIN model_field_names}
      child_data == [field_name \in names |-> stringify(child, field_name)]
  IN SetItem(SetItem(child_data, "objectID", child), "_path", Path(t, child))

RECURSIVE get_all_records(_, _, _, _)
RECURSIVE RecordsOfChildren_Pruned(_, _, _, _)
RECURSIVE RecordsOfChildren(_, _, _, _)
\* mutant: the children of a record that is not indexable are not visited
RecordsOfChildren_Pruned(h, t, ms, cs) ==
  IF cs = <<>> THEN <<>>
  ELSE LET child == Head(cs)
       IN (IF Indexable(h, child)
             THEN <<RecordOf(t, ms, child)>> \o get_all_records(h, t, ms, child)
             ELSE <<>>)
          \o RecordsOfChildren(h, t, ms, Tail(cs))

\* the loop of get_all_records over record.children.all()
RecordsOfChildren(h, t, ms, cs) ==
  IF cs = <<>> THEN <<>>
  ELSE LET child == Head(cs)
       IN (IF Indexable(h, child) THEN <<RecordOf(t, ms, child)>> ELSE <<>>)
          \o get_all_records(h, t, ms, child)
          \o RecordsOfChildren(h, t, ms, Tail(cs))
get_all_records(h, t, ms, record) == RecordsOfChildren(h, t, ms, Children(t, record))

list_local(h, t, ms) == get_all_records(h, t, ms, 0)

ObjectIDs(records) == {records[k].objectID : k \in DOMAIN records}

\* ------------------------------------------------------- remote enumeration
\* hit_object_ids(search_page): search_page["hits"] is defined for a response
\* dict only; a list argument raises TypeError.
hit_object_ids(search_page) ==
  IF search_page.type = "dict"
    THEN [raised |-> "none",
          ids |-> {search_page.val.hits[k].objectID : k \in DOMAIN search_page.val.hits}]
    ELSE [raised |-> "TypeError", ids |-> {}]

FirstPageArg(first_page) == [type |-> "dict", val |-> first_page]
NextPageArg(next_page) == [type |-> "list", val |-> next_page.hits]

\* mutants: the operands swapped; the local keys not subtracted
KeysToDelete_Swapped(remote_keys, local_keys) == local_keys \ remote_keys
KeysToDelete_All(remote_keys, local_keys) == remote_keys

\* set(remote_keys) - set(local_keys)
KeysToDelete(remote_keys, local_keys) == remote_keys \ local_keys

\* --------------------------------------------------------------- the inputs
ConfigValues(k) == {None, IF k = "app_id" THEN "cfg_id" ELSE "cfg_key"}
CliChoices ==
  {NoCreds,
   {<<"username", "cli_user">>, <<"password", None>>, <<"key", "cli_key">>}}

\* the content trees of the runs: chains and stars of every size
RunTrees == {t \in Trees : (\A n \in DOMAIN t : t[n] = n - 1) \/ (\A n \in DOMAIN t : t[n] = 0)}

\* the datamodels of the nodes: the field lists to choose from
DefaultFields == <<"title", "_hidden", "indexed", "body">>
FieldLists == {<<>>, DefaultFields, <<"objectID", "title">>, <<"_path", "body">>}

Msg(kind, n) == [msg |-> kind, n |-> n]
\* a request: its argument, whether it succeeded, the objectIDs it returned
Call(op, arg, ok, res) == [op |-> op, arg |-> arg, ok |-> ok, res |-> res]

Running == pc \notin {"uninit", "idle", "done", "error"}

Init ==
  /\ pc = "uninit"
  /\ runs = 0
  /\ config \in {{<<"app_id", a>>, <<"api_key", b>>} \ {<<"app_id", None>>, <<"api_key", None>>}
                   : a \in ConfigValues("app_id"), b \in ConfigValues("api_key")}
  /\ envCreds = {}
  /\ cli = NoCreds
  /\ algolia = "none"
  /\ tree \in RunTrees
  /\ models = [n \in DOMAIN tree |-> DefaultFields]
  /\ hook = DefaultHook
  /\ local = <<>>
  /\ all_object_ids = {}
  /\ page_count = 0
  /\ i = 0
  /\ keys_to_delete = {}
  /\ remote \in SUBSET Ids
  /\ touched = FALSE
  /\ writes = 0
  /\ calls = <<>>
  /\ msgs = <<>>
  /\ err = "none"

\* config.get(k): None when the ini file has no such key
ConfigGet(cfg, k) == IF Has(cfg, k) THEN Get(cfg, k) ELSE None

\* AlgoliaPlugin.on_setup_env
SetupCreds(cfg) ==
  Put(Put({}, "app_id", ConfigGet(cfg, "app_id")), "api_key", ConfigGet(cfg, "api_key"))

on_setup_env ==
  /\ pc = "uninit"
  /\ envCreds' = SetupCreds(config)
  /\ pc' = "idle"
  /\ UNCHANGED <<runs, config, cli, algolia, tree, models, hook, local, all_object_ids, page_count, i,
                 keys_to_delete, remote, touched, writes, calls, msgs, err>>

Raise(e) == pc' = "error" /\ err' = e

\* mutant: the upsert placed before the deletion
StepAfter_UpsertFirst(step) ==
  CASE step = "diff" -> "save"
    [] step = "save" -> "delete"
    [] step = "delete" -> "close"

\* mutant: the connection closed right after the deletion
StepAfter_CloseEarly(step) ==
  CASE step = "diff" -> "delete"
    [] step = "delete" -> "close"
    [] step = "save" -> "close"

\* the order of the statements of publish after the diff (lines 67-80)
StepAfter(step) ==
  CASE step = "diff" -> "delete"
    [] step = "delete" -> "save"
    [] step = "save" -> "close"

\* mutant: the AlgoliaException of init_index not handled as a failure
ResolveIndex_Unchecked(init_ok) == pc' = "list_local" /\ UNCHANGED err

\* try: index = self.algolia.init_index(index_name) except AlgoliaException
\* (lines 44-53)
ResolveIndex(init_ok) ==
  IF init_ok THEN pc' = "list_local" /\ UNCHANGED err
             ELSE Raise("PublishError")

\* whether a credential of the merged dict is None
HasNone(merged_creds) == \E p \in merged_creds : p[2] = None

\* publish up to the return of get_index: merge the credentials (in place, on
\* env.algolia_credentials), check them, create the client, resolve the index.
\* SearchClient.create, given a None credential, either raises an error of its
\* own or returns a client.
get_index(credentials, create_ok, init_ok) ==
  /\ pc = "idle"
  /\ runs < MaxRuns
  /\ runs' = runs + 1
  /\ cli' = credentials
  /\ LET merged_creds == merge_credentials(envCreds, credentials)
     IN /\ envCreds' = merged_creds
        /\ IF CredsMissing(merged_creds)
             THEN /\ Raise("PublishError")
                  /\ UNCHANGED <<algolia, calls>>
             ELSE IF HasNone(merged_creds) /\ ~create_ok
               THEN /\ Raise("ClientError")
                    /\ UNCHANGED <<algolia, calls>>
               ELSE /\ algolia' = "open"
                    /\ calls' = Append(calls, Call("init_index", {}, init_ok, {}))
                    /\ ResolveIndex(init_ok)
  /\ UNCHANGED <<config, tree, models, hook, local, all_object_ids, page_count, i, keys_to_delete,
                 remote, touched, writes, msgs>>

\* local = list_local(); first yield
ListLocal ==
  /\ pc = "list_local"
  /\ local' = list_local(hook, tree, models)
  /\ msgs' = Append(msgs, Msg("local", Len(local')))
  /\ pc' = "search_first"
  /\ UNCHANGED <<runs, config, envCreds, cli, algolia, tree, models, hook, all_object_ids, page_count, i,
                 keys_to_delete, remote, touched, writes, calls, err>>

\* mutant: the loop bound one too high, range(1, page_count + 1)
SearchFirst_OffByOne(ok) ==
  /\ pc = "search_first"
  /\ calls' = Append(calls, Call("search", 0, ok, IF ok THEN HitIds(Search(remote, 0)) ELSE {}))
  /\ IF ok
       THEN LET first_page == Search(remote, 0)
                first_page_hits == hit_object_ids(FirstPageArg(first_page))
            IN IF first_page_hits.raised # "none"
                 THEN /\ Raise(first_page_hits.raised)
                      /\ UNCHANGED <<all_object_ids, page_count, i>>
                 ELSE /\ all_object_ids' = first_page_hits.ids
                      /\ page_count' = first_page.nbPages
                      /\ i' = 1
                      /\ pc' = IF 1 <= first_page.nbPages THEN "search_next" ELSE "enum_done"
                      /\ UNCHANGED err
       ELSE /\ Raise("AlgoliaException")
            /\ UNCHANGED <<all_object_ids, page_count, i>>
  /\ UNCHANGED <<runs, config, envCreds, cli, algolia, tree, models, hook, local, keys_to_delete,
                 remote, touched, writes, msgs>>

\* list_remote_keys, lines 85-91: the first search request
SearchFirst(ok) ==
  /\ pc = "search_first"
  /\ calls' = Append(calls, Call("search", 0, ok, IF ok THEN HitIds(Search(remote, 0)) ELSE {}))
  /\ IF ok
       THEN LET first_page == Search(remote, 0)
                first_page_hits == hit_object_ids(FirstPageArg(first_page))
            IN IF first_page_hits.raised # "none"
                 THEN /\ Raise(first_page_hits.raised)
                      /\ UNCHANGED <<all_object_ids, page_count, i>>
                 ELSE /\ all_object_ids' = first_page_hits.ids
                      /\ page_count' = first_page.nbPages
                      /\ i' = 1
                      /\ pc' = IF 1 < first_page.nbPages THEN "search_next" ELSE "enum_done"
                      /\ UNCHANGED err
       ELSE /\ Raise("AlgoliaException")
            /\ UNCHANGED <<all_object_ids, page_count, i>>
  /\ UNCHANGED <<runs, config, envCreds, cli, algolia, tree, models, hook, local, keys_to_delete,
                 remote, touched, writes, msgs>>

\* mutant: a failed search request ends the loop like an empty page
SearchNext_Swallow(ok) ==
  /\ pc = "search_next"
  /\ calls' = Append(calls, Call("search", i, ok, IF ok THEN HitIds(Search(remote, i)) ELSE {}))
  /\ IF ok
       THEN LET next_page == Search(remote, i)
                next_page_hits == hit_object_ids(NextPageArg(next_page))
            IN IF next_page.nbHits <= 0
                 THEN /\ pc' = "enum_done"
                      /\ UNCHANGED <<all_object_ids, i, err>>
                 ELSE IF next_page_hits.raised # "none"
                   THEN /\ Raise(next_page_hits.raised)
                        /\ UNCHANGED <<all_object_ids, i>>
                   ELSE /\ all_object_ids' = all_object_ids \cup next_page_hits.ids
                        /\ i' = i + 1
                        /\ pc' = IF i + 1 < page_count THEN "search_next" ELSE "enum_done"
                        /\ UNCHANGED err
       ELSE /\ pc' = "enum_done"
            /\ UNCHANGED <<all_object_ids, i, err>>
  /\ UNCHANGED <<runs, config, envCreds, cli, algolia, tree, models, hook, local, page_count,
                 keys_to_delete, remote, touched, writes, msgs>>

\* mutant: a page without hits is skipped and the loop goes on
SearchNext_NoBreak(ok) ==
  /\ pc = "search_next"
  /\ calls' = Append(calls, Call("search", i, ok, IF ok THEN HitIds(Search(remote, i)) ELSE {}))
  /\ IF ok
       THEN LET next_page == Search(remote, i)
                next_page_hits == hit_object_ids(NextPageArg(next_page))
            IN IF next_page.nbHits <= 0
                 THEN /\ i' = i + 1
                      /\ pc' = IF i + 1 < page_count THEN "search_next" ELSE "enum_done"
                      /\ UNCHANGED <<all_object_ids, err>>
                 ELSE IF next_page_hits.raised # "none"
                   THEN /\ Raise(next_page_hits.raised)
                        /\ UNCHANGED <<all_object_ids, i>>
                   ELSE /\ all_object_ids' = all_object_ids \cup next_page_hits.ids
                        /\ i' = i + 1
                        /\ pc' = IF i + 1 < page_count THEN "search_next" ELSE "enum_done"
                        /\ UNCHANGED err
       ELSE /\ Raise("AlgoliaException")
            /\ UNCHANGED <<all_object_ids, i>>
  /\ UNCHANGED <<runs, config, envCreds, cli, algolia, tree, models, hook, local, page_count,
                 keys_to_delete, remote, touched, writes, msgs>>

\* list_remote_keys, lines 92-97: one iteration of the loop
SearchNext(ok) ==
  /\ pc = "search_next"
  /\ calls' = Append(calls, Call("search", i, ok, IF ok THEN HitIds(Search(remote, i)) ELSE {}))
  /\ IF ok
       THEN LET next_page == Search(remote, i)
                next_page_hits == hit_object_ids(NextPageArg(next_page))
            IN IF next_page.nbHits <= 0
                 THEN /\ pc' = "enum_done"
                      /\ UNCHANGED <<all_object_ids, i, err>>
                 ELSE IF next_page_hits.raised # "none"
                   THEN /\ Raise(next_page_hits.raised)
                        /\ UNCHANGED <<all_object_ids, i>>
                   ELSE /\ all_object_ids' = all_object_ids \cup next_page_hits.ids
                        /\ i' = i + 1
                        /\ pc' = IF i + 1 < page_count THEN "search_next" ELSE "enum_done"
                        /\ UNCHANGED err
       ELSE /\ Raise("AlgoliaException")
            /\ UNCHANGED <<all_object_ids, i>>
  /\ UNCHANGED <<runs, config, envCreds, cli, algolia, tree, models, hook, local, page_count,
                 keys_to_delete, remote, touched, writes, msgs>>

\* return of list_remote_keys and the two yields after it (lines 63-66); the
\* generator is suspended at "Computing diff..." with the diff not yet computed
EmitCounts ==
  /\ pc = "enum_done"
  /\ LET remote_keys == all_object_ids
     IN msgs' = msgs \o <<Msg("remote", Cardinality(remote_keys)), Msg("diff", 0)>>
  /\ pc' = "diff"
  /\ UNCHANGED <<runs, config, envCreds, cli, algolia, tree, models, hook, local, all_object_ids,
                 page_count, i, keys_to_delete, remote, touched, writes, calls, err>>

\* keys_to_delete = list(set(remote_keys) - set(local_keys)) (line 67)
ComputeDiff ==
  /\ pc = "diff"
  /\ LET remote_keys == all_object_ids
         local_keys == ObjectIDs(local)
     IN keys_to_delete' = KeysToDelete(remote_keys, local_keys)
  /\ pc' = StepAfter("diff")
  /\ UNCHANGED <<runs, config, envCreds, cli, algolia, tree, models, hook, local, all_object_ids,
                 page_count, i, remote, touched, writes, calls, msgs, err>>

\* mutant: the message yielded before the request is made
DeleteObjects_EarlyYield(ok) ==
  /\ pc = "delete"
  /\ ok \/ keys_to_delete # {}
  /\ calls' = Append(calls, Call("delete_objects", keys_to_delete, ok, {}))
  /\ IF ok
       THEN LET delete_count == RawResponses(Cardinality(keys_to_delete))
            IN /\ remote' = remote \ keys_to_delete
               /\ msgs' = Append(msgs, Msg("deleted", delete_count))
               /\ pc' = StepAfter("delete")
               /\ UNCHANGED err
       ELSE /\ Raise("AlgoliaException")
            /\ msgs' = Append(msgs, Msg("deleted", 0))
            /\ UNCHANGED remote
  /\ UNCHANGED <<runs, config, envCreds, cli, algolia, tree, models, hook, local, all_object_ids,
                 page_count, i, keys_to_delete, touched, writes>>

\* index.delete_objects(keys_to_delete) and the yield after it (lines 68-70);
\* an empty key list sends no request, so it cannot fail
DeleteObjects(ok) ==
  /\ pc = "delete"
  /\ ok \/ keys_to_delete # {}
  /\ calls' = Append(calls, Call("delete_objects", keys_to_delete, ok, {}))
  /\ IF ok
       THEN LET delete_count == RawResponses(Cardinality(keys_to_delete))
            IN /\ remote' = remote \ keys_to_delete
               /\ msgs' = Append(msgs, Msg("deleted", delete_count))
               /\ pc' = StepAfter("delete")
               /\ UNCHANGED err
       ELSE /\ Raise("AlgoliaException")
            /\ UNCHANGED <<remote, msgs>>
  /\ UNCHANGED <<runs, config, envCreds, cli, algolia, tree, models, hook, local, all_object_ids,
                 page_count, i, keys_to_delete, touched, writes>>

\* mutant: only the documents not found remotely are submitted
SaveObjects_Delta(ok) ==
  /\ pc = "save"
  /\ ok \/ local # <<>>
  /\ calls' = Append(calls, Call("save_objects", SelectSeq(local, LAMBDA r : r.objectID \notin all_object_ids), ok, {}))
  /\ IF ok
       THEN LET add_count == RawResponses(Len(local))
            IN /\ remote' = remote \cup ObjectIDs(local)
               /\ msgs' = msgs \o <<Msg("submitted", add_count), Msg("async", 0)>>
               /\ pc' = StepAfter("save")
               /\ UNCHANGED err
       ELSE /\ Raise("AlgoliaException")
            /\ UNCHANGED <<remote, msgs>>
  /\ UNCHANGED <<runs, config, envCreds, cli, algolia, tree, models, hook, local, all_object_ids,
                 page_count, i, keys_to_delete, touched, writes>>

\* index.save_objects(local) and the two yields after it (lines 72-78)
SaveObjects(ok) ==
  /\ pc = "save"
  /\ ok \/ local # <<>>
  /\ calls' = Append(calls, Call("save_objects", local, ok, {}))
  /\ IF ok
       THEN LET add_count == RawResponses(Len(local))
            IN /\ remote' = remote \cup ObjectIDs(local)
               /\ msgs' = msgs \o <<Msg("submitted", add_count), Msg("async", 0)>>
               /\ pc' = StepAfter("save")
               /\ UNCHANGED err
       ELSE /\ Raise("AlgoliaException")
            /\ UNCHANGED <<remote, msgs>>
  /\ UNCHANGED <<runs, config, envCreds, cli, algolia, tree, models, hook, local, all_object_ids,
                 page_count, i, keys_to_delete, touched, writes>>

\* self.algolia.close() (line 80)
Close ==
  /\ pc = "close"
  /\ algolia' = "closed"
  /\ calls' = Append(calls, Call("close", {}, TRUE, {}))
  /\ pc' = "done"
  /\ UNCHANGED <<runs, config, envCreds, cli, tree, models, hook, local, all_object_ids, page_count, i,
                 keys_to_delete, remote, touched, writes, msgs, err>>

\* another client of the search service changes the index during a run
OtherWriter ==
  /\ Running
  /\ writes < MaxWrites
  /\ writes' = writes + 1
  /\ touched' = TRUE
  /\ \/ \E x \in Ids \ remote : remote' = remote \cup {x}
     \/ \E x \in remote : remote' = remote \ {x}
     \/ remote # {} /\ remote' = {}
  /\ UNCHANGED <<pc, runs, config, envCreds, cli, algolia, tree, models, hook, local, all_object_ids,
                 page_count, i, keys_to_delete, calls, msgs, err>>

\* the run is over; the next deploy uses a fresh publisher on the same env
NextRun ==
  /\ pc \in {"done", "error"}
  /\ runs < MaxRuns
  /\ pc' = "idle"
  /\ cli' = NoCreds
  /\ algolia' = "none"
  /\ local' = <<>>
  /\ all_object_ids' = {}
  /\ page_count' = 0
  /\ i' = 0
  /\ keys_to_delete' = {}
  /\ touched' = FALSE
  /\ writes' = 0
  /\ calls' = <<>>
  /\ msgs' = <<>>
  /\ err' = "none"
  /\ UNCHANGED <<runs, config, envCreds, tree, models, hook, remote>>

Next ==
  \/ on_setup_env
  \/ \E c \in CliChoices, cok \in BOOLEAN, ok \in BOOLEAN : get_index(c, cok, ok)
  \/ ListLocal
  \/ \E ok \in BOOLEAN : SearchFirst(ok)
  \/ \E ok \in BOOLEAN : SearchNext(ok)
  \/ EmitCounts
  \/ ComputeDiff
  \/ \E ok \in BOOLEAN : DeleteObjects(ok)
  \/ \E ok \in BOOLEAN : SaveObjects(ok)
  \/ Close
  \/ OtherWriter
  \/ NextRun

Spec == Init /\ [][Next]_vars

\* ---------------------------------------- the credentials, with every input
\* every ini file (a key absent, empty or set) and every CLI override (each of
\* username, password, key None, empty or set); publish stops after get_index
AllConfigs ==
  {{<<"app_id", a>>, <<"api_key", b>>} \ {<<"app_id", None>>, <<"api_key", None>>}
     : a \in {None, "", "cfg_id"}, b \in {None, "", "cfg_key"}}
AllCli ==
  {NoCreds} \cup
  {{<<"username", u>>, <<"password", p>>, <<"key", k>>}
     : u \in {None, "", "cli_user"}, p \in {None, "", "cli_pw"}, k \in {None, "", "cli_key"}}

InitCreds ==
  /\ pc = "uninit"
  /\ runs = 0
  /\ config \in AllConfigs
  /\ envCreds = {}
  /\ cli = NoCreds
  /\ algolia = "none"
  /\ tree = <<>>
  /\ models = <<>>
  /\ hook = DefaultHook
  /\ local = <<>>
  /\ all_object_ids = {}
  /\ page_count = 0
  /\ i = 0
  /\ keys_to_delete = {}
  /\ remote = {}
  /\ touched = FALSE
  /\ writes = 0
  /\ calls = <<>>
  /\ msgs = <<>>
  /\ err = "none"

NextCreds ==
  \/ on_setup_env
  \/ \E c \in AllCli, cok \in BOOLEAN, ok \in BOOLEAN : get_index(c, cok, ok)
  \/ NextRun

SpecCreds == InitCreds /\ [][NextCreds]_vars

\* ------------------------------------------- the extraction, with every input
\* publish has returned from get_index; the content is any tree with any
\* datamodels, the predicate is_indexable or any predicate substituted for it
Hooks(t) == {DefaultHook} \cup {[kind |-> "subst", accepts |-> S] : S \in SUBSET DOMAIN t}

InitExtract ==
  /\ pc = "list_local"
  /\ runs = 1
  /\ config = {<<"app_id", "cfg_id">>, <<"api_key", "cfg_key">>}
  /\ envCreds = SetupCreds(config)
  /\ cli = NoCreds
  /\ algolia = "open"
  /\ tree \in Trees
  /\ models \in [DOMAIN tree -> FieldLists]
  /\ hook \in Hooks(tree)
  /\ local = <<>>
  /\ all_object_ids = {}
  /\ page_count = 0
  /\ i = 0
  /\ keys_to_delete = {}
  /\ remote = {}
  /\ touched = FALSE
  /\ writes = 0
  /\ calls = <<Call("init_index", {}, TRUE, {})>>
  /\ msgs = <<>>
  /\ err = "none"

NextExtract == ListLocal

SpecExtract == InitExtract /\ [][NextExtract]_vars

\* ------------------------------------- the enumeration, with a larger index
\* publish has extracted the (empty) local content and calls list_remote_keys
\* on an index of up to EnumIds records
InitEnum ==
  /\ pc = "search_first"
  /\ runs = 1
  /\ config = {<<"app_id", "cfg_id">>, <<"api_key", "cfg_key">>}
  /\ envCreds = SetupCreds(config)
  /\ cli = NoCreds
  /\ algolia = "open"
  /\ tree = <<>>
  /\ models = <<>>
  /\ hook = DefaultHook
  /\ local = <<>>
  /\ all_object_ids = {}
  /\ page_count = 0
  /\ i = 0
  /\ keys_to_delete = {}
  /\ remote \in SUBSET (1..EnumIds)
  /\ touched = FALSE
  /\ writes = 0
  /\ calls = <<Call("init_index", {}, TRUE, {})>>
  /\ msgs = <<Msg("local", 0)>>
  /\ err = "none"

NextEnum ==
  \/ \E ok \in BOOLEAN : SearchFirst(ok)
  \/ \E ok \in BOOLEAN : SearchNext(ok)
  \/ EmitCounts
  \/ OtherWriter

SpecEnum == InitEnum /\ [][NextEnum]_vars

TypeOK ==
  /\ pc \in {"uninit", "idle", "list_local", "search_first", "search_next", "enum_done",
             "diff", "delete", "save", "close", "done", "error"}
  /\ err \in {"none", "PublishError", "ClientError", "AlgoliaException", "TypeError"}
  /\ algolia \in {"none", "open", "closed"}
  /\ remote \subseteq Ids \cup (1..MaxNodes) \cup (1..EnumIds)

\* ------------------------------------------------------------------ claims
CallsOf(op) == {k \in DOMAIN calls : calls[k].op = op}
MsgsOf(kind) == {k \in DOMAIN msgs : msgs[k].msg = kind}
DataOps == {"search", "delete_objects", "save_objects"}
\* union of the objectIDs of the hits of every page fetched in this run
FetchedIds == UNION {calls[k].res : k \in CallsOf("search")}
Absent(d, k) == ~Has(d, k) \/ Get(d, k) = None

\* C1: when a run completes without an error and no other writer touched the
\* index, the objectIDs stored remotely are exactly those of the local documents.
C1_Mirror ==
  (pc = "done" /\ ~touched) => remote = ObjectIDs(list_local(hook, tree, models))

\* a completed, undisturbed run that deleted a stale key and added a new one
C1_Witness ==
  /\ pc = "done" /\ ~touched
  /\ keys_to_delete # {}
  /\ ObjectIDs(local) \ all_object_ids # {}
  /\ ObjectIDs(local) \cap all_object_ids # {}

\* C2 (as claimed): once get_index has run with app_id or api_key absent from
\* the merged credentials, the run has ended with the PublishError, no client
\* was created and no request was issued.
C2_Claim ==
  (pc \notin {"uninit", "idle"} /\ (Absent(envCreds, "app_id") \/ Absent(envCreds, "api_key")))
    => (pc = "error" /\ err = "PublishError" /\ algolia = "none" /\ calls = <<>>)

\* C3 (as claimed): the enumeration never ends in an error of its own, and
\* what it returns is the union of the objectIDs of the pages it fetched.
C3_Claim ==
  /\ err # "TypeError"
  /\ pc = "enum_done" => all_object_ids = FetchedIds

\* C4: the key list passed to delete_objects is the enumerated remote keys
\* minus the local objectIDs: no local key, every non-local enumerated key,
\* everything when nothing is local, nothing when nothing is remote.
C4_DeleteArg ==
  \A k \in CallsOf("delete_objects") :
    LET arg == calls[k].arg
        localIDs == ObjectIDs(list_local(hook, tree, models))
    IN /\ arg \cap localIDs = {}
       /\ \A x \in FetchedIds : x \notin localIDs => x \in arg
       /\ arg \subseteq FetchedIds
       /\ localIDs = {} => arg = FetchedIds
       /\ FetchedIds = {} => arg = {}

\* a delete call that keeps a key found on both sides and removes a stale one
C4_Witness ==
  \E k \in CallsOf("delete_objects") :
    /\ calls[k].arg # {}
    /\ FetchedIds \cap ObjectIDs(local) # {}
    /\ ObjectIDs(local) \ FetchedIds # {}

\* C5: a run that reaches the upsert step calls save_objects exactly once, with
\* every local document, whatever was found remotely.
C5_FullUpsert ==
  /\ Cardinality(CallsOf("save_objects")) <= 1
  /\ \A k \in CallsOf("save_objects") : calls[k].arg = list_local(hook, tree, models)
  /\ pc \in {"close", "done"} => CallsOf("save_objects") # {}

\* all local documents were already remote, and all were sent again
C5_Witness ==
  /\ pc = "done"
  /\ local # <<>>
  /\ ObjectIDs(local) \subseteq all_object_ids
  /\ \E k \in CallsOf("save_objects") : Len(calls[k].arg) = Len(local)

\* C6: save_objects is issued only after delete_objects has returned, and every
\* search request precedes both.
C6_Order ==
  /\ \A s \in CallsOf("save_objects") :
       \E d \in CallsOf("delete_objects") : d < s /\ calls[d].ok
  /\ \A d \in CallsOf("delete_objects"), s \in CallsOf("save_objects") : d < s
  /\ \A q \in CallsOf("search"), m \in CallsOf("delete_objects") \cup CallsOf("save_objects") :
       q < m

C6_Witness ==
  /\ CallsOf("search") # {}
  /\ CallsOf("delete_objects") # {}
  /\ CallsOf("save_objects") # {}

\* C7 (as claimed): a run that opened the client has closed it when it ends,
\* whether it completed or was aborted by an error.
C7_Claim ==
  (pc \in {"done", "error"} /\ algolia # "none") => algolia = "closed"

\* C8: when resolving the index fails the run ends with the PublishError, with
\* no progress message and no search, delete or save request.
C8_IndexFailure ==
  \A k \in CallsOf("init_index") :
    ~calls[k].ok =>
      /\ pc = "error" /\ err = "PublishError"
      /\ msgs = <<>>
      /\ \A j \in DOMAIN calls : calls[j].op \notin DataOps

C8_Witness ==
  \E k \in CallsOf("init_index") : ~calls[k].ok /\ pc = "error"

\* progress messages yielded before a request of this kind is issued
MsgsBefore(op) ==
  CASE op = "init_index" -> 0
    [] op = "search" -> 1
    [] op = "delete_objects" -> 3
    [] op = "save_objects" -> 4
    [] OTHER -> 6

\* C9: the first error ends the run: a failed request is the last request, no
\* message follows it, and after a failed enumeration neither delete_objects
\* nor save_objects is called.
C9_Abort ==
  /\ \A k \in DOMAIN calls :
       ~calls[k].ok =>
         /\ k = Len(calls)
         /\ pc = "error" /\ err # "none"
         /\ Len(msgs) = MsgsBefore(calls[k].op)
  /\ err # "none" =>
       /\ pc = "error"
       /\ calls # <<>> => Len(msgs) = MsgsBefore(calls[Len(calls)].op)
  /\ (\E q \in CallsOf("search") : ~calls[q].ok) \/ err = "TypeError"
       => CallsOf("delete_objects") \cup CallsOf("save_objects") = {}

\* a search request of the enumeration failed after the first page was read
C9_Witness ==
  /\ \E q \in CallsOf("search") : ~calls[q].ok /\ q > 2
  /\ pc = "error"

\* C10 (as claimed): with every operation acknowledged, the "Deleted" message
\* carries the number of deleted keys and the "Finished submitting" message
\* the number of local documents.
C10_Claim ==
  /\ \A m \in MsgsOf("deleted") : msgs[m].n = Cardinality(keys_to_delete)
  /\ \A m \in MsgsOf("submitted") : msgs[m].n = Len(local)

\* the run has called get_index: cli and envCreds are its argument and result
Merged == pc \notin {"uninit", "idle"}

\* what the claim says of the merge of cfg with the CLI override c into m
MergedAsClaimed(cfg, c, m) ==
  IF c = NoCreds THEN m = cfg
  ELSE LET given == {v \in {Get(c, "password"), Get(c, "key")} : Truthy(v)}
       IN /\ {p[1] : p \in m} = {"app_id", "api_key"}
          /\ Cardinality(m) = 2
          /\ Get(m, "app_id") = IF Truthy(Get(c, "username")) THEN Get(c, "username")
                                                               ELSE Get(cfg, "app_id")
          /\ IF given # {} THEN Get(m, "api_key") \in given
                           ELSE Get(m, "api_key") = Get(cfg, "api_key")

\* C11: every merge done by get_index gives a non-empty CLI username, password
\* or key precedence over the credentials it is merged into, keeps the latter
\* where the CLI value is None or empty, and changes nothing without an override.
C11_Precedence ==
  [][(pc = "idle" /\ pc' # "idle") => MergedAsClaimed(envCreds, cli', envCreds')]_vars

\* a merge that took the username from the CLI and kept the api_key of the config
C11_Witness ==
  /\ Merged /\ runs = 1 /\ cli # NoCreds
  /\ config = {<<"app_id", "cfg_id">>, <<"api_key", "cfg_key">>}
  /\ Get(cli, "username") = "cli_user" /\ Get(cli, "password") = "" /\ Get(cli, "key") = None
  /\ envCreds = {<<"app_id", "cli_user">>, <<"api_key", "cfg_key">>}

\* C18 (as claimed): env.algolia_credentials always holds what on_setup_env
\* loaded from the config.
C18_Claim ==
  pc # "uninit" => envCreds = SetupCreds(config)

\* C20: with a non-empty password and a non-empty key the merged api_key is the
\* key; with only one of them non-empty it is that one.
C20_KeyWins ==
  (Merged /\ cli # NoCreds) =>
    /\ Truthy(Get(cli, "key")) => Get(envCreds, "api_key") = Get(cli, "key")
    /\ (Truthy(Get(cli, "password")) /\ ~Truthy(Get(cli, "key")))
         => Get(envCreds, "api_key") = Get(cli, "password")

C20_Witness ==
  /\ Merged /\ cli # NoCreds
  /\ Get(cli, "password") = "cli_pw" /\ Get(cli, "key") = "cli_key"
  /\ Get(envCreds, "api_key") = "cli_key"

\* the local records have been extracted
Extracted == pc = "search_first"
\* the nodes reachable from the root: the root and all its descendants
NodesReachable(t) == {0} \cup DOMAIN t
IndexableNodes(h, t) == {n \in DOMAIN t : Indexable(h, n)}

\* C12 (as claimed): under the default predicate the extractor returns one
\* document for every node reachable from the root, with distinct objectIDs.
C12_Claim ==
  (Extracted /\ hook = DefaultHook) =>
    /\ Len(local) = Cardinality(NodesReachable(tree))
    /\ Cardinality(ObjectIDs(local)) = Len(local)

\* C16: whatever predicate is installed, the documents are exactly those of
\* the descendants of the root the predicate accepts, also below a node it
\* rejects.
C16_TraversalIndependent ==
  Extracted =>
    /\ ObjectIDs(local) = IndexableNodes(hook, tree)
    /\ Len(local) = Cardinality(IndexableNodes(hook, tree))

\* an accepted node below a rejected parent is among the documents
C16_Witness ==
  /\ Extracted /\ hook.kind = "subst"
  /\ \E n \in DOMAIN tree :
       /\ tree[n] # 0 /\ tree[n] \notin hook.accepts
       /\ n \in hook.accepts /\ n \in ObjectIDs(local)

\* the keys the claim gives the document of node n
ClaimedKeys(ms, n) ==
  {"objectID", "_path"} \cup
  {ms[n][k] : k \in {j \in DOMAIN ms[n] : FirstChar(ms[n][j]) # "_" /\ ms[n][j] # "indexed"}}

\* C17: the document of a node has objectID = its gid, _path = its path and one
\* entry per declared field whose name neither starts with "_" nor is
\* "indexed", and nothing else; a declared field objectID does not replace the gid.
C17_RecordKeys ==
  Extracted =>
    /\ \A n \in IndexableNodes(hook, tree) :
         \E k \in DOMAIN local :
           /\ local[k].objectID = n
           /\ local[k]["_path"] = Path(tree, n)
           /\ DOMAIN local[k] = ClaimedKeys(models, n)
    /\ Len(local) = Cardinality(IndexableNodes(hook, tree))

\* a document of a node whose datamodel declares a field objectID, and one of
\* a node with system fields and the indexed flag
C17_Witness ==
  /\ Extracted
  /\ \E k \in DOMAIN local : models[local[k].objectID] = <<"objectID", "title">>
  /\ \E k \in DOMAIN local : models[local[k].objectID] = DefaultFields

\* C13: when the page fetched by an iteration of the loop (index >= 1) reports
\* no hits, the enumeration ends there with the keys collected so far, and no
\* search request is issued once the enumeration has ended.
C13_ShortCircuit ==
  [][/\ (/\ pc = "search_next"
         /\ Len(calls') = Len(calls) + 1
         /\ calls'[Len(calls')].ok
         /\ Search(remote, i).nbHits <= 0)
        => (pc' = "enum_done" /\ all_object_ids' = all_object_ids)
     /\ (pc \notin {"search_first", "search_next", "idle", "uninit"} /\ pc' # "idle")
        => {k \in DOMAIN calls' : calls'[k].op = "search"} = CallsOf("search")]_vars

\* the loop was left at page 1 although the first response announced 3 pages
C13_Witness ==
  /\ pc = "enum_done" /\ err = "none"
  /\ page_count >= 3 /\ i = 1
  /\ Cardinality(CallsOf("search")) = 2
  /\ all_object_ids # {}

\* C14: the search requests of a run ask for the pages 0, 1, 2, ... in this
\* order, each after the previous one returned; a page after the first is
\* below the page count of the first response, and with a page count of 0 or 1
\* there is exactly one request.
C14_PageOrder ==
  LET S == CallsOf("search")
  IN /\ \A k \in S : calls[k].arg = Cardinality({j \in S : j < k})
     /\ \A j \in S, k \in S : j < k => calls[j].ok
     /\ \A k \in S : calls[k].arg >= 1 => calls[k].arg < page_count
     /\ (pc \notin {"search_first", "search_next"} /\ err = "none" /\ S # {} /\ page_count <= 1)
          => Cardinality(S) = 1

C14_Witness ==
  /\ page_count = 3
  /\ \E k \in CallsOf("search") : calls[k].arg = 1
  /\ \E k \in CallsOf("search") : calls[k].arg = 0 /\ calls[k].ok

\* the diff has been computed: line 67 has run
DiffComputed == pc \in {"delete", "save", "close", "done"} \/ CallsOf("delete_objects") # {}

MsgOrder == <<"local", "remote", "diff", "deleted", "submitted", "async">>
InOrder ==
  /\ Len(msgs) <= Len(MsgOrder)
  /\ \A k \in DOMAIN msgs : msgs[k].msg = MsgOrder[k]
AfterExtraction ==
  MsgsOf("local") # {} =>
    /\ pc # "list_local"
    /\ local = list_local(hook, tree, models)
    /\ \A k \in MsgsOf("local") : msgs[k].n = Len(local)
AfterEnumeration ==
  MsgsOf("remote") # {} =>
    /\ pc \notin {"search_first", "search_next"}
    /\ \A k \in CallsOf("search") : calls[k].ok
    /\ \A k \in MsgsOf("remote") : msgs[k].n = Cardinality(FetchedIds)
AfterDelete ==
  MsgsOf("deleted") # {} => \E k \in CallsOf("delete_objects") : calls[k].ok
AfterSave ==
  MsgsOf("submitted") # {} => \E k \in CallsOf("save_objects") : calls[k].ok

\* C15 (as claimed): the messages appear in the fixed order, each after the
\* step it reports has completed; the diff message after the diff was computed.
C15_Claim ==
  /\ InOrder /\ AfterExtraction /\ AfterEnumeration /\ AfterDelete /\ AfterSave
  /\ MsgsOf("diff") # {} => DiffComputed

\* C15 (amended): the messages appear in the fixed order; the local, remote,
\* deleted and submitted messages after their step has completed; the diff
\* message after the enumeration and before the diff is computed.
C15_Checkpoints ==
  /\ InOrder /\ AfterExtraction /\ AfterEnumeration /\ AfterDelete /\ AfterSave
  /\ MsgsOf("diff") # {} => MsgsOf("remote") # {}
  /\ DiffComputed => MsgsOf("diff") # {}
  /\ pc = "diff" => (MsgsOf("diff") # {} /\ ~DiffComputed /\ keys_to_delete = {})

\* a complete run with all six messages and a non-empty diff
C15_Witness ==
  /\ pc = "done" /\ Len(msgs) = 6
  /\ keys_to_delete # {} /\ local # <<>>

\* C19: the connection is closed at most once in a run, only after save_objects
\* has returned and the final message was yielded, and close is the last request.
C19_CloseLast ==
  /\ Cardinality(CallsOf("close")) <= 1
  /\ \A c \in CallsOf("close") :
       /\ c = Len(calls)
       /\ \E sv \in CallsOf("save_objects") : sv < c /\ calls[sv].ok
       /\ MsgsOf("async") # {}
  /\ algolia = "closed" <=> CallsOf("close") # {}

C19_Witness ==
  /\ pc = "done" /\ algolia = "closed"
  /\ CallsOf("close") # {}
====
